---- MODULE Spec2Model ----
(***************************************************************************)
(* LLM provider service of AI_HELPER (src/core/llm_service.py) as a state  *)
(* machine: one LLMService object, its mutators, and send_request with the *)
(* three provider builders split at their blocking calls.                  *)
(*                                                                         *)
(* Python dicts are functions with a finite string domain; an attribute    *)
(* that exists only after assignment (use_extended_thinking, ...) is a key *)
(* of attrs, so hasattr(self, a) is  a \in DOMAIN attrs.                    *)
(***************************************************************************)
EXTENDS Integers, Sequences, FiniteSets, TLC

(***************************************************************************)
(* Dict helpers                                                            *)
(***************************************************************************)
EmptyDict == [k \in {} |-> 0]

Get(d, k, default) == IF k \in DOMAIN d THEN d[k] ELSE default

Put(d, k, v) == [a \in DOMAIN d \cup {k} |-> IF a = k THEN v ELSE d[a]]

Remove(d, ks) == [a \in DOMAIN d \ ks |-> d[a]]

\* Python's None, kept apart from every string the model passes around.
None == "<None>"

\* `not x` for an Optional[str]: None and the empty string are falsy.
Falsy(x) == x \in {None, ""}

(***************************************************************************)
(* Configurations handed to LLMService(config).                            *)
(***************************************************************************)
\* DEFAULT_CONFIG["api"] of config.py, without each model's display name,
\* which the service never reads.  The Anthropic models carry no capabilities.
DefaultApi ==
  [anthropic |->
     [url |-> "https://api.anthropic.com/v1/messages",
      models |-> << [id |-> "claude-3-opus-20240229"],
                    [id |-> "claude-3-sonnet-20240229"],
                    [id |-> "claude-3-haiku-20240307"],
                    [id |-> "claude-3-7-sonnet-20250219"] >>,
      default_model |-> "claude-3-7-sonnet-20250219"],
   openai |->
     [url |-> "https://api.openai.com/v1/chat/completions",
      version |-> "2023-06-01",
      models |-> << [id |-> "o1",
                     capabilities |-> [context_window |-> 200000,
                                       max_tokens_default |-> 16000,
                                       max_completion_tokens |-> 100000,
                                       supports_reasoning |-> TRUE]],
                    [id |-> "o3-mini",
                     capabilities |-> [context_window |-> 200000,
                                       max_tokens_default |-> 16000,
                                       max_completion_tokens |-> 100000,
                                       supports_reasoning |-> TRUE]],
                    [id |-> "gpt-4.5-preview",
                     capabilities |-> [context_window |-> 128000,
                                       max_tokens_default |-> 16384]],
                    [id |-> "gpt-4o",
                     capabilities |-> [context_window |-> 128000,
                                       max_tokens_default |-> 16384]] >>,
      default_model |-> "gpt-4o"],
   gemini |->
     [library |-> "google-genai",
      models |-> << [id |-> "gemini-1.5-pro",
                     capabilities |-> [context_window |-> 2097152,
                                       max_tokens_default |-> 8192,
                                       input_token_limit |-> 2097152,
                                       output_token_limit |-> 8192,
                                       supports_vision |-> TRUE]],
                    [id |-> "gemini-2.0-pro-exp",
                     capabilities |-> [context_window |-> 1048576,
                                       max_tokens_default |-> 8192,
                                       input_token_limit |-> 1048576,
                                       output_token_limit |-> 8192,
                                       supports_vision |-> TRUE]],
                    [id |-> "gemini-2.0-flash",
                     capabilities |-> [context_window |-> 1048576,
                                       max_tokens_default |-> 8192,
                                       input_token_limit |-> 1048576,
                                       output_token_limit |-> 8192,
                                       supports_vision |-> TRUE,
                                       supports_audio |-> TRUE,
                                       supports_video |-> TRUE]],
                    [id |-> "gemini-2.0-flash-thinking-exp",
                     capabilities |-> [context_window |-> 1048576,
                                       max_tokens_default |-> 8192,
                                       input_token_limit |-> 1048576,
                                       output_token_limit |-> 8192,
                                       supports_thinking |-> TRUE,
                                       supports_vision |-> TRUE]] >>,
      default_model |-> "gemini-2.0-flash"]]

\* Of DEFAULT_CONFIG, the two keys the service reads.
DEFAULT_CONFIG == [api |-> DefaultApi, default_api |-> "anthropic"]

\* What merge_configs leaves when AI_HELP/config.json overrides the shipped
\* catalogue: Anthropic models with capabilities (one with a stated
\* max_tokens_extended, one relying on the 64000 fallback), reasoning and
\* thinking models as the OpenAI and Gemini defaults, and a fourth provider
\* the service has no builder for.
LoadedApi ==
  [a \in DOMAIN DefaultApi \cup {"mistral"} |->
     IF a = "anthropic" THEN
       [url |-> "https://api.anthropic.com/v1/messages",
        models |-> << [id |-> "claude-3-7-sonnet-20250219",
                       capabilities |-> [max_tokens_default |-> 8192,
                                         supports_extended_thinking |-> TRUE,
                                         max_tokens_extended |-> 64000]],
                      [id |-> "claude-3-opus-20240229",
                       capabilities |-> [supports_extended_thinking |-> TRUE,
                                         supports_long_output |-> TRUE]],
                      [id |-> "claude-3-haiku-20240307",
                       capabilities |-> [max_tokens_default |-> 4096]] >>,
        default_model |-> "claude-3-7-sonnet-20250219"]
     ELSE IF a = "openai" THEN
       [m \in DOMAIN DefaultApi.openai |->
          IF m = "default_model" THEN "o1" ELSE DefaultApi.openai[m]]
     ELSE IF a = "gemini" THEN
       [m \in DOMAIN DefaultApi.gemini |->
          IF m = "default_model" THEN "gemini-2.0-flash-thinking-exp"
          ELSE DefaultApi.gemini[m]]
     ELSE
       [url |-> "https://api.mistral.ai/v1/chat/completions",
        models |-> << [id |-> "mistral-large",
                       capabilities |-> [max_tokens_default |-> 4096]] >>,
        default_model |-> "mistral-large"]]

LOADED_CONFIG == [api |-> LoadedApi, default_api |-> "anthropic"]

\* What merge_configs leaves when config.json names a default_api that the
\* catalogue has no entry for.
STALE_CONFIG == [api |-> DefaultApi, default_api |-> "cohere"]

\* The state holds a configuration by its name, as the object holds it by
\* reference; Config dereferences it.
ConfigNames == {"DEFAULT_CONFIG", "LOADED_CONFIG"}

Config(name) ==
  IF name = "DEFAULT_CONFIG" THEN DEFAULT_CONFIG
  ELSE IF name = "LOADED_CONFIG" THEN LOADED_CONFIG
  ELSE STALE_CONFIG

(***************************************************************************)
(* State                                                                   *)
(***************************************************************************)
VARIABLES
  config,         \* self.config: the name of the configuration it refers to
  api_key,        \* self.api_key: None or a string
  api_provider,   \* self.api_provider
  api_config,     \* self.api_config: the key of the config["api"] entry it
                  \* refers to, None for the empty mapping
  model_id,       \* self.model_id: None or a string
  parameters,     \* self.parameters
  last_usage,     \* self.last_usage
  gemini_client,  \* self.gemini_client: None, or the key genai was configured with
  attrs,          \* use_extended_thinking, extended_thinking_budget,
                  \* reasoning_effort, use_thinking: present only once assigned
  call,           \* the public call made last: [op, arg, ret]
  pc,             \* where the send_request in flight stands ("idle": none)
  on_progress,    \* the callback handed to the call made last
  progress,       \* the values that call passed to the callback, in order
  net_calls,      \* the network calls that call issued
  request,        \* what that call's builder put together to send
  response,       \* what the network or the SDK answered to it
  supplied,       \* the <<provider, key>> pairs of the set_api_key calls a
                  \* specification keeps a record of
  running,        \* the LLMWorker threads still inside send_request that
                  \* self.llm_thread no longer refers to
  env_file,       \* the .env file of the project: whether it exists, its lines
  environ         \* os.environ

session == <<config, api_key, api_provider, api_config, model_id, parameters,
             last_usage, gemini_client, attrs>>

vars == <<config, api_key, api_provider, api_config, model_id, parameters,
          last_usage, gemini_client, attrs, call, pc, on_progress, progress,
          net_calls, request, response, supplied, running, env_file,
          environ>>

(***************************************************************************)
(* Capability lookup and derived defaults                                  *)
(***************************************************************************)
\* On a miss, the capabilities of the catalogue's first entry.
GetModelCapabilities_FirstOnMiss(acfg, mid) ==
  LET models == Get(acfg, "models", <<>>)
      hits == {i \in 1..Len(models) : Get(models[i], "id", None) = mid}
      first == CHOOSE i \in hits : \A j \in hits : i <= j
  IN IF hits = {}
     THEN IF models = <<>> THEN EmptyDict
          ELSE Get(models[1], "capabilities", EmptyDict)
     ELSE Get(models[first], "capabilities", EmptyDict)

\* _get_model_capabilities: the first catalogue entry whose id matches.
GetModelCapabilities(acfg, mid) ==
  LET models == Get(acfg, "models", <<>>)
      hits == {i \in 1..Len(models) : Get(models[i], "id", None) = mid}
      first == CHOOSE i \in hits : \A j \in hits : i <= j
  IN IF hits = {} THEN EmptyDict
     ELSE Get(models[first], "capabilities", EmptyDict)

\* model_caps.get(flag, False) used as a condition.
Supports(caps, flag) == Get(caps, flag, FALSE) = TRUE

\* configure_for_model: the parameters and attributes it leaves behind.
ConfigureForModel(provider, acfg, mid, params, at) ==
  LET caps == GetModelCapabilities(acfg, mid) IN
  IF Falsy(mid) \/ DOMAIN caps = {} THEN
    [parameters |-> params, attrs |-> at]
  ELSE IF provider = "anthropic" THEN
    [parameters |-> Put(params, "max_tokens", Get(caps, "max_tokens_default", 8192)),
     attrs |-> IF Supports(caps, "supports_extended_thinking")
               THEN Put(Put(at, "use_extended_thinking", FALSE),
                        "extended_thinking_budget",
                        Get(caps, "max_tokens_extended", 64000))
               ELSE at]
  ELSE IF provider = "openai" THEN
    IF Supports(caps, "supports_reasoning") THEN
      [parameters |-> Put(params, "max_tokens", Get(caps, "max_tokens_default", 16000)),
       attrs |-> Put(at, "reasoning_effort", "medium")]
    ELSE
      [parameters |-> Put(params, "max_tokens", Get(caps, "max_tokens_default", 16384)),
       attrs |-> at]
  ELSE IF provider = "gemini" THEN
    [parameters |-> Put(params, "max_output_tokens", Get(caps, "output_token_limit", 8192)),
     attrs |-> IF Supports(caps, "supports_thinking")
               THEN Put(at, "use_thinking", FALSE)
               ELSE at]
  ELSE
    [parameters |-> params, attrs |-> at]

\* self.config["api"] and self.api_config, dereferenced.
ConfigApi == Config(config).api

ApiConfig == IF api_config = None THEN EmptyDict ELSE ConfigApi[api_config]

\* The capabilities of the active model.
ActiveCaps == GetModelCapabilities(ApiConfig, model_id)

\* on_progress=None
NoCallback == [present |-> FALSE, raises_at |-> {}]

(***************************************************************************)
(* Construction: LLMService(config), as MainWindow creates it.             *)
(***************************************************************************)
\* temperature 0.7, in tenths.
DefaultTemperature == 7

InitFor(name) ==
  LET cfg == Config(name)
      provider == Get(cfg, "default_api", "anthropic")
      acfg == Get(cfg.api, provider, EmptyDict)
      mid == Get(acfg, "default_model", None)
      params == [temperature |-> DefaultTemperature]
      conf == IF ~Falsy(mid)
              THEN ConfigureForModel(provider, acfg, mid, params, EmptyDict)
              ELSE [parameters |-> params, attrs |-> EmptyDict]
  IN /\ config = name
     /\ api_key = None
     /\ api_provider = provider
     /\ api_config = IF provider \in DOMAIN cfg.api THEN provider ELSE None
     /\ model_id = mid
     /\ parameters = conf.parameters
     /\ last_usage = EmptyDict
     /\ gemini_client = None
     /\ attrs = Put(conf.attrs, "reasoning_effort", "medium")

InitSession(names) ==
  /\ \E name \in names : InitFor(name)
  /\ call = [op |-> "__init__", arg |-> None, ret |-> None]
  /\ pc = "idle"
  /\ on_progress = NoCallback
  /\ progress = <<>>
  /\ net_calls = 0
  /\ request = EmptyDict
  /\ response = EmptyDict
  /\ supplied = {}
  /\ running = 0

\* No .env file in the project and nothing in the environment.
InitWith(names) ==
  /\ InitSession(names)
  /\ env_file = [exists |-> FALSE, lines |-> <<>>]
  /\ environ = EmptyDict

Init == InitWith(ConfigNames)

(***************************************************************************)
(* Mutators                                                                *)
(***************************************************************************)
SetApiKey_AlwaysResets(key) ==
  /\ api_key' = key
  /\ gemini_client' = None
  /\ call' = [op |-> "set_api_key", arg |-> key, ret |-> None]
  /\ UNCHANGED <<config, api_provider, api_config, model_id, parameters,
                 last_usage, attrs>>

\* set_api_key(api_key)
SetApiKey(key) ==
  /\ api_key' = key
  /\ gemini_client' = IF api_provider = "gemini" THEN None ELSE gemini_client
  /\ call' = [op |-> "set_api_key", arg |-> key, ret |-> None]
  /\ UNCHANGED <<config, api_provider, api_config, model_id, parameters,
                 last_usage, attrs>>

\* The attributes set_provider deletes.
ProviderSwitchAttrs_NoThinking ==
  {"use_extended_thinking", "extended_thinking_budget", "reasoning_effort"}

ProviderSwitchAttrs ==
  {"use_extended_thinking", "extended_thinking_budget", "reasoning_effort",
   "use_thinking"}

\* set_provider's `return False`: nothing was touched.
RefuseProvider_ClearsFirst(provider) ==
  /\ attrs' = Remove(attrs, ProviderSwitchAttrs)
  /\ call' = [op |-> "set_provider", arg |-> provider, ret |-> FALSE]
  /\ UNCHANGED <<config, api_key, api_provider, api_config, model_id,
                 parameters, last_usage, gemini_client>>

RefuseProvider(provider) ==
  /\ call' = [op |-> "set_provider", arg |-> provider, ret |-> FALSE]
  /\ UNCHANGED session

ProviderSwitchClient_KeepsHandle(previous, provider, client) == client

\* The Gemini handle set_provider leaves: dropped on a switch to gemini
\* from another provider.
ProviderSwitchClient(previous, provider, client) ==
  IF previous # provider /\ provider = "gemini" THEN None ELSE client

\* set_provider(provider)
SetProvider(provider) ==
  IF provider \in DOMAIN ConfigApi THEN
    LET acfg == ConfigApi[provider]
        mid == Get(acfg, "default_model", None)
        conf == ConfigureForModel(provider, acfg, mid, parameters,
                                  Remove(attrs, ProviderSwitchAttrs))
    IN /\ api_provider' = provider
       /\ api_config' = provider
       /\ model_id' = mid
       /\ gemini_client' = ProviderSwitchClient(api_provider, provider, gemini_client)
       /\ parameters' = conf.parameters
       /\ attrs' = conf.attrs
       /\ call' = [op |-> "set_provider", arg |-> provider, ret |-> TRUE]
       /\ UNCHANGED <<config, api_key, last_usage>>
  ELSE
    RefuseProvider(provider)

\* The attributes set_model deletes.
ModelSwitchAttrs ==
  {"use_extended_thinking", "extended_thinking_budget", "reasoning_effort"}

\* set_model(model_id)
SetModel(mid) ==
  LET conf == ConfigureForModel(api_provider, ApiConfig, mid, parameters,
                                Remove(attrs, ModelSwitchAttrs))
  IN /\ model_id' = mid
     /\ parameters' = conf.parameters
     /\ attrs' = conf.attrs
     /\ call' = [op |-> "set_model", arg |-> mid, ret |-> None]
     /\ UNCHANGED <<config, api_key, api_provider, api_config, last_usage,
                    gemini_client>>

\* _get_model_capabilities(), as the builders and the setters call it.
LookupCapabilities ==
  /\ call' = [op |-> "_get_model_capabilities", arg |-> None, ret |-> ActiveCaps]
  /\ UNCHANGED session

\* set_parameter(param_name, value)
SetParameter(name, value) ==
  /\ parameters' = Put(parameters, name, value)
  /\ call' = [op |-> "set_parameter", arg |-> <<name, value>>, ret |-> None]
  /\ UNCHANGED <<config, api_key, api_provider, api_config, model_id,
                 last_usage, gemini_client, attrs>>

\* min(budget, max_budget)
ClampBudget(budget, max_budget) == IF budget < max_budget THEN budget ELSE max_budget

\* set_extended_thinking(enabled, budget=None): budget is <<>> for None and
\* <<b>> for the integer b.
NoBudget == <<>>

SetExtendedThinking(enabled, budget) ==
  IF ~Supports(ActiveCaps, "supports_extended_thinking") THEN
    /\ call' = [op |-> "set_extended_thinking", arg |-> <<enabled, budget>>,
                ret |-> FALSE]
    /\ UNCHANGED session
  ELSE
    /\ attrs' = IF budget # NoBudget
                THEN Put(Put(attrs, "use_extended_thinking", enabled),
                         "extended_thinking_budget",
                         ClampBudget(budget[1], Get(ActiveCaps, "max_tokens_extended", 64000)))
                ELSE Put(attrs, "use_extended_thinking", enabled)
    /\ call' = [op |-> "set_extended_thinking", arg |-> <<enabled, budget>>,
                ret |-> TRUE]
    /\ UNCHANGED <<config, api_key, api_provider, api_config, model_id,
                   parameters, last_usage, gemini_client>>

\* set_thinking(enabled)
SetThinking(enabled) ==
  IF ~Supports(ActiveCaps, "supports_thinking") THEN
    /\ call' = [op |-> "set_thinking", arg |-> enabled, ret |-> FALSE]
    /\ UNCHANGED session
  ELSE
    /\ attrs' = Put(attrs, "use_thinking", enabled)
    /\ call' = [op |-> "set_thinking", arg |-> enabled, ret |-> TRUE]
    /\ UNCHANGED <<config, api_key, api_provider, api_config, model_id,
                   parameters, last_usage, gemini_client>>

SetReasoningEffort_NoCapabilityCheck(effort) ==
  IF effort \notin {"low", "medium", "high"} THEN
    /\ call' = [op |-> "set_reasoning_effort", arg |-> effort, ret |-> FALSE]
    /\ UNCHANGED session
  ELSE
    /\ attrs' = Put(attrs, "reasoning_effort", effort)
    /\ call' = [op |-> "set_reasoning_effort", arg |-> effort, ret |-> TRUE]
    /\ UNCHANGED <<config, api_key, api_provider, api_config, model_id,
                   parameters, last_usage, gemini_client>>

SetReasoningEffort_NoEnumCheck(effort) ==
  IF ~Supports(ActiveCaps, "supports_reasoning") THEN
    /\ call' = [op |-> "set_reasoning_effort", arg |-> effort, ret |-> FALSE]
    /\ UNCHANGED session
  ELSE
    /\ attrs' = Put(attrs, "reasoning_effort", effort)
    /\ call' = [op |-> "set_reasoning_effort", arg |-> effort, ret |-> TRUE]
    /\ UNCHANGED <<config, api_key, api_provider, api_config, model_id,
                   parameters, last_usage, gemini_client>>

\* set_reasoning_effort(effort)
SetReasoningEffort(effort) ==
  IF ~Supports(ActiveCaps, "supports_reasoning") THEN
    /\ call' = [op |-> "set_reasoning_effort", arg |-> effort, ret |-> FALSE]
    /\ UNCHANGED session
  ELSE IF effort \notin {"low", "medium", "high"} THEN
    /\ call' = [op |-> "set_reasoning_effort", arg |-> effort, ret |-> FALSE]
    /\ UNCHANGED session
  ELSE
    /\ attrs' = Put(attrs, "reasoning_effort", effort)
    /\ call' = [op |-> "set_reasoning_effort", arg |-> effort, ret |-> TRUE]
    /\ UNCHANGED <<config, api_key, api_provider, api_config, model_id,
                   parameters, last_usage, gemini_client>>

(***************************************************************************)
(* send_request                                                            *)
(***************************************************************************)
Emit_Forgets100(seq, cb, v) ==
  IF cb.present /\ v # 100 THEN Append(seq, v) ELSE seq

\* if on_progress: on_progress(v) -- the values the callback has been given.
Emit(seq, cb, v) == IF cb.present THEN Append(seq, v) ELSE seq

\* The callback raises when it is given v.
Raises(cb, v) == cb.present /\ v \in cb.raises_at

CallbackError == "progress callback failed"

\* How a send_request ended: by a return of the extracted text ("text"), by a
\* return of an error string ("error"), or by an exception reaching the
\* caller ("raise"); "pending" while it runs.
Pending(cb) == [op |-> "send_request", arg |-> cb,
                ret |-> [via |-> "pending", value |-> ""]]

Returned(cb, via, value) == [op |-> "send_request", arg |-> cb,
                             ret |-> [via |-> via, value |-> value]]

PreconditionError_ModelFirst(key, mid) ==
  IF Falsy(mid) THEN "Error: No model selected"
  ELSE IF Falsy(key) THEN "Error: API key not provided"
  ELSE None

\* The two checks send_request makes before it reports anything: the error
\* it returns, None when both pass.
PreconditionError(key, mid) ==
  IF Falsy(key) THEN "Error: API key not provided"
  ELSE IF Falsy(mid) THEN "Error: No model selected"
  ELSE None

\* send_request up to the dispatch to a provider's builder.
Dispatch(cb) ==
  /\ on_progress' = cb
  /\ net_calls' = 0
  /\ request' = EmptyDict
  /\ response' = EmptyDict
  /\ UNCHANGED <<session, supplied, env_file, environ>>
  /\ IF PreconditionError(api_key, model_id) # None THEN
       /\ progress' = <<>>
       /\ pc' = "idle"
       /\ call' = Returned(cb, "error", PreconditionError(api_key, model_id))
     ELSE
       /\ progress' = Emit(<<>>, cb, 10)
       /\ IF Raises(cb, 10) THEN
            /\ pc' = "idle"
            /\ call' = Returned(cb, "raise", CallbackError)
          ELSE IF api_provider \in {"anthropic", "openai", "gemini"} THEN
            /\ pc' = api_provider
            /\ call' = Pending(cb)
          ELSE
            /\ pc' = "idle"
            /\ call' = Returned(cb, "error",
                                "Error: Unsupported provider " \o api_provider)

\* send_request(prompt, on_progress), called with no other send in flight.
SendRequest(cb) ==
  /\ pc = "idle"
  /\ Dispatch(cb)
  /\ UNCHANGED running

(***************************************************************************)
(* What the network and the Gemini SDK may answer                          *)
(***************************************************************************)
NetworkError == "connection refused"

Usage1 == [input_tokens |-> 12, output_tokens |-> 34]

Usage2 == [input_tokens |-> 56, output_tokens |-> 78]

\* requests.post(...): it raises (exc), or answers with a status and a body.
HttpFailure == [exc |-> TRUE, status |-> 0, text |-> "", json |-> EmptyDict]

HttpAnswer(status, text, json) ==
  [exc |-> FALSE, status |-> status, text |-> text, json |-> json]

AnthropicResponses ==
  { HttpFailure,
    HttpAnswer(500, "overloaded", EmptyDict),
    HttpAnswer(200, "", [content |-> << [type |-> "text", text |-> "A"],
                                         [type |-> "image"],
                                         [type |-> "text", text |-> "B"] >>,
                         usage |-> Usage1]),
    HttpAnswer(200, "", [content |-> << [type |-> "text", text |-> "A"] >>]),
    HttpAnswer(200, "", [content |-> << [type |-> "thinking", text |-> "T"],
                                         [type |-> "text", text |-> "B"],
                                         [type |-> "text", text |-> "A"] >>]),
    HttpAnswer(200, "", [content |-> << [type |-> "image"] >>, usage |-> Usage2]),
    HttpAnswer(200, "", [content |-> << >>, usage |-> Usage2]),
    HttpAnswer(200, "", [usage |-> Usage2]) }

OpenAIResponses ==
  { HttpFailure,
    HttpAnswer(429, "rate limited", EmptyDict),
    HttpAnswer(200, "", [choices |-> << [message |-> [content |-> "A"]],
                                         [message |-> [content |-> "B"]] >>,
                         usage |-> Usage1]),
    HttpAnswer(200, "", [choices |-> << [message |-> [content |-> "A"]] >>]),
    HttpAnswer(200, "", [choices |-> << >>, usage |-> Usage2]),
    HttpAnswer(200, "", [usage |-> Usage2]) }

\* model.generate_content(...): it raises, or returns a response object that
\* may carry usage_metadata and whose .text may raise (no candidate text).
GeminiResponses ==
  { [exc |-> TRUE, has_usage |-> FALSE, text_raises |-> FALSE, text |-> ""],
    [exc |-> FALSE, has_usage |-> TRUE, text_raises |-> FALSE, text |-> "A"],
    [exc |-> FALSE, has_usage |-> FALSE, text_raises |-> FALSE, text |-> "A"],
    [exc |-> FALSE, has_usage |-> TRUE, text_raises |-> TRUE, text |-> ""] }

GeminiUsage == [prompt_tokens |-> 12, completion_tokens |-> 34, total_tokens |-> 46]

GeminiTextError == "response.text requires a valid candidate"

\* What importing and configuring the SDK may do.
SdkOutcomes == {"ok", "not_installed", "import_error", "configure_error"}

(***************************************************************************)
(* _anthropic_request                                                      *)
(***************************************************************************)
\* result["content"][0]["text"] in place of the loop over the blocks.
ConcatText_FirstBlockOnly(content) ==
  IF content = <<>> THEN "" ELSE Get(Head(content), "text", "")

\* The text blocks of a content array, concatenated in array order.
RECURSIVE ConcatText(_)
ConcatText(content) ==
  IF content = <<>> THEN ""
  ELSE LET block == Head(content)
           piece == IF Get(block, "type", None) = "text"
                    THEN Get(block, "text", "") ELSE ""
       IN piece \o ConcatText(Tail(content))

\* for param, value in d.items(): data[param] = value
Overlay(data, d) ==
  [k \in DOMAIN data \cup DOMAIN d |-> IF k \in DOMAIN d THEN d[k] ELSE data[k]]

Prompt == "prompt"

\* data of every HTTP builder before anything is added to it.
BaseData == [model |-> model_id,
             messages |-> << [role |-> "user", content |-> Prompt] >>]

\* The headers and the body _anthropic_request hands to requests.post.
AnthropicRequest ==
  LET caps == ActiveCaps
      headers == [x_api_key |-> api_key,
                  anthropic_version |-> Get(ApiConfig, "version", "2023-06-01"),
                  content_type |-> "application/json"]
      thinking == /\ "use_extended_thinking" \in DOMAIN attrs
                  /\ attrs.use_extended_thinking
                  /\ Supports(caps, "supports_extended_thinking")
      data == IF thinking
              THEN Put(BaseData, "thinking",
                       [type |-> "enabled",
                        budget_tokens |-> attrs.extended_thinking_budget])
              ELSE BaseData
  IN [url |-> Get(ApiConfig, "url", "https://api.anthropic.com/v1/messages"),
      headers |-> IF Supports(caps, "supports_long_output")
                  THEN Put(headers, "anthropic_beta", "output-128k-2025-02-19")
                  ELSE headers,
      json |-> Overlay(data, parameters)]

\* Up to the blocking requests.post: the request is built, 30 is reported.
AnthropicBuild ==
  /\ pc = "anthropic"
  /\ request' = AnthropicRequest
  /\ progress' = Emit(progress, on_progress, 30)
  /\ IF Raises(on_progress, 30) THEN
       /\ pc' = "idle"
       /\ call' = Returned(on_progress, "error", "Error: " \o CallbackError)
     ELSE
       /\ pc' = "anthropic_post"
       /\ UNCHANGED call
  /\ UNCHANGED <<session, on_progress, net_calls, response, supplied,
                 running, env_file, environ>>

\* requests.post returns or raises; the response is parsed.
AnthropicPost(resp) ==
  /\ pc = "anthropic_post"
  /\ pc' = "idle"
  /\ net_calls' = net_calls + 1
  /\ response' = resp
  /\ UNCHANGED <<config, api_key, api_provider, api_config, model_id,
                 parameters, gemini_client, attrs, on_progress, request,
                 supplied, running, env_file, environ>>
  /\ IF resp.exc THEN
       /\ call' = Returned(on_progress, "error", "Error: " \o NetworkError)
       /\ UNCHANGED <<progress, last_usage>>
     ELSE IF Raises(on_progress, 90) THEN
       /\ progress' = Emit(progress, on_progress, 90)
       /\ call' = Returned(on_progress, "error", "Error: " \o CallbackError)
       /\ UNCHANGED last_usage
     ELSE IF resp.status # 200 THEN
       /\ progress' = Emit(progress, on_progress, 90)
       /\ call' = Returned(on_progress, "error",
                           "Error: API returned status code " \o ToString(resp.status)
                             \o "\n" \o resp.text)
       /\ UNCHANGED last_usage
     ELSE IF ~("content" \in DOMAIN resp.json /\ Len(resp.json.content) > 0) THEN
       /\ progress' = Emit(progress, on_progress, 90)
       /\ call' = Returned(on_progress, "error", "Error: Empty response from API")
       /\ UNCHANGED last_usage
     ELSE
       /\ last_usage' = IF "usage" \in DOMAIN resp.json
                        THEN resp.json.usage ELSE last_usage
       /\ progress' = Emit(Emit(progress, on_progress, 90), on_progress, 100)
       /\ call' = IF Raises(on_progress, 100)
                  THEN Returned(on_progress, "error", "Error: " \o CallbackError)
                  ELSE Returned(on_progress, "text", ConcatText(resp.json.content))

(***************************************************************************)
(* _openai_request                                                         *)
(***************************************************************************)
\* The parameters the closing loop of _openai_request copies into data.
OpenAIRemaining_KeepsMaxTokens(reasoning) == parameters

OpenAIRemaining(reasoning) ==
  IF reasoning THEN Remove(parameters, {"max_tokens"}) ELSE parameters

\* data as _openai_request configures it for the model type, before the
\* remaining parameters are added.
OpenAIConfigured(reasoning) ==
  IF reasoning THEN
    LET renamed == IF "max_tokens" \in DOMAIN parameters
                   THEN Put(BaseData, "max_completion_tokens", parameters.max_tokens)
                   ELSE BaseData
    IN IF "reasoning_effort" \in DOMAIN attrs
       THEN Put(renamed, "reasoning_effort", attrs.reasoning_effort)
       ELSE renamed
  ELSE
    IF "max_tokens" \in DOMAIN parameters
    THEN Put(BaseData, "max_tokens", parameters.max_tokens)
    ELSE BaseData

\* The headers and the body _openai_request hands to requests.post.
OpenAIRequest ==
  LET reasoning == Supports(ActiveCaps, "supports_reasoning")
  IN [url |-> Get(ApiConfig, "url", "https://api.openai.com/v1/chat/completions"),
      headers |-> [authorization |-> "Bearer " \o api_key,
                   content_type |-> "application/json"],
      json |-> Overlay(OpenAIConfigured(reasoning), OpenAIRemaining(reasoning))]

OpenAIBuild ==
  /\ pc = "openai"
  /\ request' = OpenAIRequest
  /\ progress' = Emit(progress, on_progress, 30)
  /\ IF Raises(on_progress, 30) THEN
       /\ pc' = "idle"
       /\ call' = Returned(on_progress, "error", "Error: " \o CallbackError)
     ELSE
       /\ pc' = "openai_post"
       /\ UNCHANGED call
  /\ UNCHANGED <<session, on_progress, net_calls, response, supplied,
                 running, env_file, environ>>

OpenAIPost(resp) ==
  /\ pc = "openai_post"
  /\ pc' = "idle"
  /\ net_calls' = net_calls + 1
  /\ response' = resp
  /\ UNCHANGED <<config, api_key, api_provider, api_config, model_id,
                 parameters, gemini_client, attrs, on_progress, request,
                 supplied, running, env_file, environ>>
  /\ IF resp.exc THEN
       /\ call' = Returned(on_progress, "error", "Error: " \o NetworkError)
       /\ UNCHANGED <<progress, last_usage>>
     ELSE IF Raises(on_progress, 90) THEN
       /\ progress' = Emit(progress, on_progress, 90)
       /\ call' = Returned(on_progress, "error", "Error: " \o CallbackError)
       /\ UNCHANGED last_usage
     ELSE IF resp.status # 200 THEN
       /\ progress' = Emit(progress, on_progress, 90)
       /\ call' = Returned(on_progress, "error",
                           "Error: API returned status code " \o ToString(resp.status)
                             \o "\n" \o resp.text)
       /\ UNCHANGED last_usage
     ELSE IF ~("choices" \in DOMAIN resp.json /\ Len(resp.json.choices) > 0) THEN
       /\ progress' = Emit(progress, on_progress, 90)
       /\ call' = Returned(on_progress, "error", "Error: Empty response from API")
       /\ UNCHANGED last_usage
     ELSE
       /\ last_usage' = IF "usage" \in DOMAIN resp.json
                        THEN resp.json.usage ELSE last_usage
       /\ progress' = Emit(Emit(progress, on_progress, 90), on_progress, 100)
       /\ call' = IF Raises(on_progress, 100)
                  THEN Returned(on_progress, "error", "Error: " \o CallbackError)
                  ELSE Returned(on_progress, "text",
                                resp.json.choices[1].message.content)

(***************************************************************************)
(* _initialize_gemini_client and _gemini_request                           *)
(***************************************************************************)
\* The handle is assigned before the SDK is looked for.
InitializeGeminiClient_CachesFirst(client, key, sdk) ==
  IF client = None /\ ~Falsy(key) THEN
    IF sdk = "not_installed" THEN
      [client |-> key,
       error |-> "Error: google-genai package is not installed. Please install it with 'pip install google-genai'"]
    ELSE IF sdk = "import_error" THEN
      [client |-> key,
       error |-> "Error: Could not import google-genai. Please install it with 'pip install google-genai'"]
    ELSE IF sdk = "configure_error" THEN
      [client |-> key,
       error |-> "Error initializing Gemini client: " \o "invalid key"]
    ELSE
      [client |-> key, error |-> None]
  ELSE
    [client |-> client, error |-> None]

\* _initialize_gemini_client: the handle it leaves and the error it returns
\* (None: no error), given what the SDK does.
InitializeGeminiClient(client, key, sdk) ==
  IF client = None /\ ~Falsy(key) THEN
    IF sdk = "not_installed" THEN
      [client |-> client,
       error |-> "Error: google-genai package is not installed. Please install it with 'pip install google-genai'"]
    ELSE IF sdk = "import_error" THEN
      [client |-> client,
       error |-> "Error: Could not import google-genai. Please install it with 'pip install google-genai'"]
    ELSE IF sdk = "configure_error" THEN
      [client |-> client,
       error |-> "Error initializing Gemini client: " \o "invalid key"]
    ELSE
      [client |-> key, error |-> None]
  ELSE
    [client |-> client, error |-> None]

\* What _gemini_request hands to the SDK: the model object it builds on the
\* client (which carries the key genai was configured with) and the options
\* of generate_content.  temperature and top_p are in tenths.
GeminiRequest(client) ==
  [client_key |-> client,
   model_name |-> model_id,
   generation_config |->
     [temperature |-> Get(parameters, "temperature", DefaultTemperature),
      max_output_tokens |-> Get(parameters, "max_output_tokens", 8192),
      top_p |-> Get(parameters, "top_p", 10),
      top_k |-> Get(parameters, "top_k", 32)],
   generation_options |->
     IF Supports(ActiveCaps, "supports_thinking") /\ Get(attrs, "use_thinking", FALSE)
     THEN [thinking |-> TRUE] ELSE EmptyDict]

\* Up to the blocking generate_content: the client is initialised, 20 is
\* reported, the model object is built, 40 is reported.
GeminiInit(sdk) ==
  LET init == InitializeGeminiClient(gemini_client, api_key, sdk) IN
  /\ pc = "gemini"
  /\ gemini_client' = init.client
  /\ UNCHANGED <<config, api_key, api_provider, api_config, model_id,
                 parameters, last_usage, attrs, on_progress, net_calls,
                 supplied, running, env_file, environ>>
  /\ response' = IF gemini_client = None /\ ~Falsy(api_key)
                  THEN [sdk |-> sdk] ELSE response
  /\ request' = IF init.error = None /\ ~Raises(on_progress, 20)
                    /\ init.client # None
                 THEN GeminiRequest(init.client) ELSE request
  /\ IF init.error # None THEN
       /\ pc' = "idle"
       /\ call' = Returned(on_progress, "error", init.error)
       /\ UNCHANGED progress
     ELSE IF Raises(on_progress, 20) THEN
       /\ pc' = "idle"
       /\ progress' = Emit(progress, on_progress, 20)
       /\ call' = Returned(on_progress, "error", "Error: " \o CallbackError)
     ELSE IF init.client = None THEN
       /\ pc' = "idle"
       /\ progress' = Emit(progress, on_progress, 20)
       /\ call' = Returned(on_progress, "error",
                           "Error from Gemini API: 'NoneType' object has no attribute 'GenerativeModel'")
     ELSE IF Raises(on_progress, 40) THEN
       /\ pc' = "idle"
       /\ progress' = Emit(Emit(progress, on_progress, 20), on_progress, 40)
       /\ call' = Returned(on_progress, "error",
                           "Error from Gemini API: " \o CallbackError)
     ELSE
       /\ pc' = "gemini_generate"
       /\ progress' = Emit(Emit(progress, on_progress, 20), on_progress, 40)
       /\ UNCHANGED call

\* generate_content returns or raises; usage is stored, the text returned.
GeminiGenerate(resp) ==
  /\ pc = "gemini_generate"
  /\ pc' = "idle"
  /\ net_calls' = net_calls + 1
  /\ response' = resp
  /\ UNCHANGED <<config, api_key, api_provider, api_config, model_id,
                 parameters, gemini_client, attrs, on_progress, request,
                 supplied, running, env_file, environ>>
  /\ IF resp.exc THEN
       /\ call' = Returned(on_progress, "error",
                           "Error from Gemini API: " \o NetworkError)
       /\ UNCHANGED <<progress, last_usage>>
     ELSE IF Raises(on_progress, 90) THEN
       /\ progress' = Emit(progress, on_progress, 90)
       /\ call' = Returned(on_progress, "error",
                           "Error from Gemini API: " \o CallbackError)
       /\ UNCHANGED last_usage
     ELSE
       /\ last_usage' = IF resp.has_usage THEN GeminiUsage ELSE last_usage
       /\ progress' = Emit(Emit(progress, on_progress, 90), on_progress, 100)
       /\ call' = IF Raises(on_progress, 100)
                  THEN Returned(on_progress, "error",
                                "Error from Gemini API: " \o CallbackError)
                  ELSE IF resp.text_raises
                  THEN Returned(on_progress, "error",
                                "Error from Gemini API: " \o GeminiTextError)
                  ELSE Returned(on_progress, "text", resp.text)

(***************************************************************************)
(* The caller: one thread that makes one public call at a time.            *)
(***************************************************************************)
\* Keys "sk-1" .. "sk-n".
Keys(n) == {"sk-" \o ToString(i) : i \in 1..n}

\* Budgets in steps of 32000, from one step below zero up to n steps.
Budgets(n) == {<<u * 32000>> : u \in -1..n}

NumKeys == 2

MaxBudgetUnits == 3

ProviderInputs == {"anthropic", "openai", "gemini", "mistral", "unknown"}

ModelInputs == {"claude-3-7-sonnet-20250219", "claude-3-haiku-20240307",
                "o1", "gpt-4o", "gemini-2.0-flash",
                "gemini-2.0-flash-thinking-exp", "no-such-model", ""}

EffortInputs == {"low", "medium", "high", "ultra"}

Milestones == {10, 20, 30, 40, 90, 100}

PlainCallback == [present |-> TRUE, raises_at |-> {}]

CallbackInputs ==
  {NoCallback, PlainCallback}
    \cup {[present |-> TRUE, raises_at |-> {m}] : m \in Milestones}

\* A mutator runs between sends; it reports no progress and no network call.
NoSend ==
  /\ pc = "idle"
  /\ pc' = "idle"
  /\ on_progress' = NoCallback
  /\ progress' = <<>>
  /\ net_calls' = 0
  /\ request' = EmptyDict
  /\ response' = EmptyDict
  /\ UNCHANGED <<running, env_file, environ>>

\* A call the specification keeps no record of.
Quiet == NoSend /\ UNCHANGED supplied

CallSetApiKey(keys) == \E key \in keys : SetApiKey(key) /\ Quiet

\* set_api_key, with a record of the provider that was active.
CallSetApiKeyRecorded(keys) ==
  \E key \in keys :
    /\ SetApiKey(key)
    /\ NoSend
    /\ supplied' = supplied \cup {<<api_provider, key>>}

CallSetProvider(providers) == \E provider \in providers : SetProvider(provider) /\ Quiet

CallSetModel(models) == \E mid \in models : SetModel(mid) /\ Quiet

CallSetParameter(pairs) == \E p \in pairs : SetParameter(p[1], p[2]) /\ Quiet

CallSetExtendedThinking(budgets) ==
  \E enabled \in BOOLEAN, budget \in budgets :
    SetExtendedThinking(enabled, budget) /\ Quiet

CallSetThinking == \E enabled \in BOOLEAN : SetThinking(enabled) /\ Quiet

CallSetReasoningEffort(efforts) ==
  \E effort \in efforts : SetReasoningEffort(effort) /\ Quiet

CallGetModelCapabilities == LookupCapabilities /\ Quiet

CallSendRequest(callbacks) == \E cb \in callbacks : SendRequest(cb)

StepAnthropicPost(resps) == \E resp \in resps : AnthropicPost(resp)

StepOpenAIPost(resps) == \E resp \in resps : OpenAIPost(resp)

StepGeminiInit(sdks) == \E sdk \in sdks : GeminiInit(sdk)

StepGeminiGenerate(resps) == \E resp \in resps : GeminiGenerate(resp)

(***************************************************************************)
(* Spec: the session.  Every mutator with all of its inputs; sends go out  *)
(* with a plain callback and meet a working network and SDK.               *)
(***************************************************************************)
Answered(resps) == {r \in resps : ~r.exc}

Next ==
  \/ CallSetApiKey(Keys(1))
  \/ CallSetProvider(ProviderInputs)
  \/ CallSetModel(ModelInputs)
  \/ CallSetParameter({<<"max_tokens", 500>>})
  \/ CallSetExtendedThinking({NoBudget} \cup Budgets(MaxBudgetUnits))
  \/ CallSetThinking
  \/ CallSetReasoningEffort(EffortInputs)
  \/ CallSendRequest({PlainCallback})
  \/ AnthropicBuild
  \/ StepAnthropicPost({r \in Answered(AnthropicResponses) : "usage" \notin DOMAIN r.json})
  \/ OpenAIBuild
  \/ StepOpenAIPost({r \in Answered(OpenAIResponses) : "usage" \notin DOMAIN r.json})
  \/ StepGeminiInit({"ok"})
  \/ StepGeminiGenerate({r \in Answered(GeminiResponses) : ~r.has_usage})

Spec == Init /\ [][Next]_vars

(***************************************************************************)
(* SpecSend: the dispatch.  Keys, providers and the empty model id are     *)
(* set; sends go out with every callback and meet every answer.            *)
(***************************************************************************)
NextSend ==
  \/ CallSetApiKey({""} \cup Keys(NumKeys))
  \/ CallSetProvider(ProviderInputs \ {"unknown"})
  \/ CallSetModel({""})
  \/ CallSendRequest(CallbackInputs)
  \/ AnthropicBuild
  \/ StepAnthropicPost(AnthropicResponses)
  \/ OpenAIBuild
  \/ StepOpenAIPost(OpenAIResponses)
  \/ StepGeminiInit(SdkOutcomes)
  \/ StepGeminiGenerate(GeminiResponses)

SpecSend == Init /\ [][NextSend]_vars

(***************************************************************************)
(* SpecBody: the request bodies.  Providers, models and parameters under   *)
(* the names a caller may give them are set; sends go out with a plain     *)
(* callback and are answered.                                              *)
(***************************************************************************)
ParameterInputs == {<<"max_tokens", 500>>, <<"max_completion_tokens", 100>>,
                    <<"top_p", 9>>, <<"model", "other-model">>}

NextBody ==
  \/ CallSetApiKey(Keys(1))
  \/ CallSetProvider({"anthropic", "openai", "gemini"})
  \/ CallSetModel({"o1", "gpt-4o", "no-such-model"})
  \/ CallSetParameter(ParameterInputs)
  \/ CallSetReasoningEffort({"high"})
  \/ CallSendRequest({PlainCallback})
  \/ AnthropicBuild
  \/ StepAnthropicPost({HttpAnswer(200, "", [content |-> << [type |-> "text", text |-> "A"] >>])})
  \/ OpenAIBuild
  \/ StepOpenAIPost({HttpAnswer(200, "", [choices |-> << [message |-> [content |-> "A"]] >>])})
  \/ StepGeminiInit({"ok"})
  \/ StepGeminiGenerate({r \in Answered(GeminiResponses) : ~r.has_usage /\ ~r.text_raises})

SpecBody == Init /\ [][NextBody]_vars

(***************************************************************************)
(* SpecLookup: the capability lookup, from every configuration, a stale    *)
(* default_api included, under every provider and model id.                *)
(***************************************************************************)
NextLookup ==
  \/ CallSetProvider(ProviderInputs)
  \/ CallSetModel(ModelInputs)
  \/ CallGetModelCapabilities

SpecLookup == InitWith(ConfigNames \cup {"STALE_CONFIG"}) /\ [][NextLookup]_vars

(***************************************************************************)
(* SpecKey: the credential.  Keys are supplied and providers switched in   *)
(* any order, with a record of which key was supplied under which          *)
(* provider; sends go out with a plain callback and are answered.          *)
(***************************************************************************)
NextKey ==
  \/ CallSetApiKeyRecorded(Keys(NumKeys))
  \/ CallSetProvider({"anthropic", "openai", "gemini"})
  \/ CallSendRequest({PlainCallback})
  \/ AnthropicBuild
  \/ StepAnthropicPost({HttpAnswer(200, "", [content |-> << [type |-> "text", text |-> "A"] >>])})
  \/ OpenAIBuild
  \/ StepOpenAIPost({HttpAnswer(200, "", [choices |-> << [message |-> [content |-> "A"]] >>])})
  \/ StepGeminiInit({"ok"})
  \/ StepGeminiGenerate({r \in Answered(GeminiResponses) : ~r.has_usage /\ ~r.text_raises})

SpecKey == Init /\ [][NextKey]_vars

(***************************************************************************)
(* SpecFrame: what each call leaves alone.  Keys, providers and parameters *)
(* are set; sends go out with every callback and meet every answer.        *)
(***************************************************************************)
NextFrame ==
  \/ CallSetApiKey({""} \cup Keys(NumKeys))
  \/ CallSetProvider({"anthropic", "openai", "gemini"})
  \/ CallSetParameter({<<"max_tokens", 500>>, <<"temperature", 3>>})
  \/ CallSendRequest(CallbackInputs)
  \/ AnthropicBuild
  \/ StepAnthropicPost(AnthropicResponses)
  \/ OpenAIBuild
  \/ StepOpenAIPost(OpenAIResponses)
  \/ StepGeminiInit(SdkOutcomes)
  \/ StepGeminiGenerate(GeminiResponses)

SpecFrame == Init /\ [][NextFrame]_vars

(***************************************************************************)
(* The window: handlers of the GUI thread, which run while LLMWorker       *)
(* threads are inside send_request.                                        *)
(***************************************************************************)
\* Where a worker waits for the network.
Blocked == {"anthropic_post", "openai_post", "gemini_generate"}

MaxDisplaced == 2

\* _run_combine_ai with a message to send: without a key it returns; with
\* one it starts a new LLMWorker and lets self.llm_thread refer to it,
\* whatever self.llm_thread referred to.  The click is handled while no
\* worker is in flight or while the one in flight waits for the network.
RunCombineAi ==
  /\ ~Falsy(api_key)
  /\ pc \in {"idle"} \cup Blocked
  /\ IF pc = "idle" THEN UNCHANGED running
     ELSE running < MaxDisplaced /\ running' = running + 1
  /\ Dispatch(PlainCallback)

\* LLMWorker.run of a worker self.llm_thread no longer refers to: the
\* network answers, without usage, and send_request returns.
WorkerReturns ==
  /\ running > 0
  /\ running' = running - 1
  /\ UNCHANGED <<session, call, pc, on_progress, progress, net_calls,
                 request, response, supplied, env_file, environ>>

\* _show_model_settings, accepted: the mode of the active provider is set
\* if the model supports it, then the token limit and the temperature.
\* The dialog is served by the GUI thread whatever the workers do.
SaveModelSettings(enabled, budget, effort, tokens, temperature) ==
  LET caps == ActiveCaps
      limit == IF api_provider = "gemini" THEN "max_output_tokens"
               ELSE "max_tokens"
  IN /\ ~Falsy(api_key)
     /\ attrs' =
          IF api_provider = "anthropic"
             /\ Supports(caps, "supports_extended_thinking")
          THEN Put(Put(attrs, "use_extended_thinking", enabled),
                   "extended_thinking_budget",
                   ClampBudget(budget, Get(caps, "max_tokens_extended", 64000)))
          ELSE IF api_provider = "openai" /\ Supports(caps, "supports_reasoning")
          THEN Put(attrs, "reasoning_effort", effort)
          ELSE IF api_provider = "gemini" /\ Supports(caps, "supports_thinking")
          THEN Put(attrs, "use_thinking", enabled)
          ELSE attrs
     /\ parameters' = Put(Put(parameters, limit, tokens),
                          "temperature", temperature)
     /\ call' = [op |-> "set_parameter", arg |-> <<"temperature", temperature>>,
                 ret |-> None]
     /\ UNCHANGED <<config, api_key, api_provider, api_config, model_id,
                    last_usage, gemini_client, pc, on_progress, progress,
                    net_calls, request, response, supplied, running,
                    env_file, environ>>

(***************************************************************************)
(* SpecGui: the window.  A key is set, providers are switched between      *)
(* sends, COMBINE + AI is triggered and the model settings are saved at    *)
(* any time; workers are answered.                                         *)
(***************************************************************************)
NextGui ==
  \/ CallSetApiKey(Keys(1))
  \/ CallSetProvider({"anthropic", "openai", "gemini"})
  \/ RunCombineAi
  \/ WorkerReturns
  \/ \E enabled \in BOOLEAN : SaveModelSettings(enabled, 32000, "high", 500, 3)
  \/ AnthropicBuild
  \/ StepAnthropicPost({HttpAnswer(200, "", [content |-> << [type |-> "text", text |-> "A"] >>])})
  \/ OpenAIBuild
  \/ StepOpenAIPost({HttpAnswer(200, "", [choices |-> << [message |-> [content |-> "A"]] >>])})
  \/ StepGeminiInit({"ok"})
  \/ StepGeminiGenerate({r \in Answered(GeminiResponses) : ~r.has_usage /\ ~r.text_raises})

SpecGui == Init /\ [][NextGui]_vars

(***************************************************************************)
(* The credential store: the .env file and the environment                 *)
(***************************************************************************)
\* A line of the .env file: NAME=value, a comment or blank line, or a name
\* standing alone (no '=' in it).
Pair(name, value) == [kind |-> "pair", key |-> name, value |-> value]

Comment == [kind |-> "comment", key |-> "", value |-> ""]

Bare(name) == [kind |-> "bare", key |-> name, value |-> ""]

\* env_vars.get(provider)
EnvVar(provider) ==
  IF provider = "anthropic" THEN "ANTHROPIC_API_KEY"
  ELSE IF provider = "openai" THEN "OPENAI_API_KEY"
  ELSE IF provider = "gemini" THEN "GEMINI_API_KEY"
  ELSE None

\* d[name] = value on a dict kept as the sequence of its <<name, value>>
\* items: a name already there keeps its place.
SetItem(items, name, value) ==
  IF \E i \in 1..Len(items) : items[i][1] = name
  THEN [i \in 1..Len(items) |->
          IF items[i][1] = name THEN <<name, value>> ELSE items[i]]
  ELSE Append(items, <<name, value>>)

\* The loop of save_key over the lines of the file: the items collected, or
\* the ValueError of unpacking a line that holds no '='.
RECURSIVE ReadEnvFile(_, _)
ReadEnvFile(lines, items) ==
  IF lines = <<>> THEN [raised |-> FALSE, items |-> items]
  ELSE IF Head(lines).kind = "comment" THEN ReadEnvFile(Tail(lines), items)
  ELSE IF Head(lines).kind = "bare" THEN [raised |-> TRUE, items |-> items]
  ELSE ReadEnvFile(Tail(lines),
                   SetItem(items, Head(lines).key, Head(lines).value))

\* The lines save_key writes back.
WriteEnvFile(items) ==
  [i \in 1..Len(items) |-> Pair(items[i][1], items[i][2])]

\* save_key(config, provider, api_key): what it returns or raises, and the
\* file and the environment it leaves.
SaveKeyOutcome(file, env, provider, key) ==
  LET env_var == EnvVar(provider)
      read == IF file.exists THEN ReadEnvFile(file.lines, <<>>)
              ELSE [raised |-> FALSE, items |-> <<>>]
  IN IF env_var = None THEN
       [via |-> "return", value |-> "False", file |-> file, environ |-> env]
     ELSE IF read.raised THEN
       [via |-> "raise", value |-> "ValueError", file |-> file, environ |-> env]
     ELSE
       [via |-> "return", value |-> "True",
        file |-> [exists |-> TRUE,
                  lines |-> WriteEnvFile(SetItem(read.items, env_var, key))],
        environ |-> Put(env, env_var, key)]

\* dotenv's reading of the file: the value of the last NAME=value line of
\* each name; a name standing alone has no value and is not exported.
DotenvNames(lines) ==
  {lines[i].key : i \in {j \in 1..Len(lines) : lines[j].kind = "pair"}}

DotenvValue(lines, name) ==
  LET at == {i \in 1..Len(lines) : lines[i].kind = "pair" /\ lines[i].key = name}
      last == CHOOSE i \in at : \A j \in at : j <= i
  IN lines[last].value

\* dotenv.load_dotenv(env_path): variables already in the environment are
\* not overridden.
LoadDotenv(file, env) ==
  IF file.exists
  THEN [name \in DOMAIN env \cup DotenvNames(file.lines) |->
          IF name \in DOMAIN env THEN env[name]
          ELSE DotenvValue(file.lines, name)]
  ELSE env

\* load_keys(config): the mapping it returns and the environment it leaves.
LoadKeysOutcome(file, env) ==
  LET loaded == LoadDotenv(file, env)
  IN [keys |-> [anthropic |-> Get(loaded, "ANTHROPIC_API_KEY", ""),
                openai |-> Get(loaded, "OPENAI_API_KEY", ""),
                gemini |-> Get(loaded, "GEMINI_API_KEY", "")],
      environ |-> loaded]

SaveKey(provider, key) ==
  LET out == SaveKeyOutcome(env_file, environ, provider, key) IN
  /\ pc = "idle"
  /\ env_file' = out.file
  /\ environ' = out.environ
  /\ call' = [op |-> "save_key", arg |-> <<provider, key>>,
              ret |-> [via |-> out.via, value |-> out.value]]
  /\ UNCHANGED <<session, pc, on_progress, progress, net_calls, request,
                 response, supplied, running>>

LoadKeys ==
  LET out == LoadKeysOutcome(env_file, environ) IN
  /\ pc = "idle"
  /\ environ' = out.environ
  /\ call' = [op |-> "load_keys", arg |-> None, ret |-> out.keys]
  /\ UNCHANGED <<session, pc, on_progress, progress, net_calls, request,
                 response, supplied, running, env_file>>

\* A new process: the environment is the one it is started in.
StartProcess(environments) ==
  /\ pc = "idle"
  /\ environ' \in environments
  /\ call' = [op |-> "__init__", arg |-> None, ret |-> None]
  /\ UNCHANGED <<session, pc, on_progress, progress, net_calls, request,
                 response, supplied, running, env_file>>

(***************************************************************************)
(* SpecStore: keys are saved and loaded, from every file and environment   *)
(* listed, across restarts of the process.                                 *)
(***************************************************************************)
EnvFileInputs ==
  {[exists |-> FALSE, lines |-> <<>>],
   [exists |-> TRUE, lines |-> <<>>],
   [exists |-> TRUE,
    lines |-> <<Comment, Pair("OPENAI_API_KEY", "sk-1"), Pair("DEBUG", "1")>>],
   [exists |-> TRUE,
    lines |-> <<Pair("GEMINI_API_KEY", "sk-2"), Pair("GEMINI_API_KEY", "sk-1")>>],
   [exists |-> TRUE,
    lines |-> <<Pair("ANTHROPIC_API_KEY", "sk-1"), Bare("VERBOSE")>>]}

EnvironInputs == {EmptyDict, [PATH |-> "/usr/bin"]}

InitStore ==
  /\ InitSession(ConfigNames)
  /\ env_file \in EnvFileInputs
  /\ environ \in EnvironInputs

NextStore ==
  \/ \E provider \in {"anthropic", "openai", "gemini", "mistral"} :
       \E key \in Keys(NumKeys) : SaveKey(provider, key)
  \/ LoadKeys
  \/ StartProcess(EnvironInputs)

SpecStore == InitStore /\ [][NextStore]_vars

(***************************************************************************)
(* Properties of the session (checked under Spec)                          *)
(***************************************************************************)
\* A mode attribute is absent or holds the value configure_for_model gives
\* it for the active model: nothing a caller chose is in effect.
FlagsCleared ==
  /\ "use_extended_thinking" \in DOMAIN attrs => attrs.use_extended_thinking = FALSE
  /\ "extended_thinking_budget" \in DOMAIN attrs =>
       attrs.extended_thinking_budget = Get(ActiveCaps, "max_tokens_extended", 64000)
  /\ "reasoning_effort" \in DOMAIN attrs => attrs.reasoning_effort = "medium"
  /\ "use_thinking" \in DOMAIN attrs => attrs.use_thinking = FALSE

\* C1: set_provider(name) with a name that is no key of config["api"] returns
\* False and leaves provider, api_config, model_id, the parameters, the mode
\* attributes and the cached Gemini client as they were.
C1_UnknownProviderRefused ==
  [][(call'.op = "set_provider" /\ call'.arg \notin DOMAIN ConfigApi)
       => /\ call'.ret = FALSE
          /\ UNCHANGED <<api_provider, api_config, model_id, parameters,
                         attrs, gemini_client, api_key, last_usage>>]_vars

\* C1 witness: an unknown provider was refused in a session that holds a
\* Gemini client and a thinking flag the caller switched on.
C1_Witness ==
  /\ call.op = "set_provider"
  /\ call.arg \notin DOMAIN ConfigApi
  /\ call.ret = FALSE
  /\ gemini_client # None
  /\ "use_thinking" \in DOMAIN attrs
  /\ attrs.use_thinking = TRUE

\* C2: after set_provider(p) returned True, model_id is p's default_model and
\* every mode flag is absent or back at its initial value.
C2_ProviderSwitchResets ==
  (call.op = "set_provider" /\ call.ret = TRUE)
    => /\ api_provider = call.arg
       /\ api_config = call.arg
       /\ model_id = Get(ConfigApi[call.arg], "default_model", None)
       /\ FlagsCleared

\* C2 witness: a switch to openai landed on its default model with the
\* initial reasoning effort, all other flags gone.
C2_Witness ==
  /\ call.op = "set_provider"
  /\ call.ret = TRUE
  /\ call.arg = "openai"
  /\ model_id = "o1"
  /\ DOMAIN attrs = {"reasoning_effort"}

\* C3: in every reachable state a mode flag exists only when the active
\* model's capabilities report the matching support flag.
C3_FlagsOnlyWhenSupported ==
  /\ "use_extended_thinking" \in DOMAIN attrs
       => Supports(ActiveCaps, "supports_extended_thinking")
  /\ "extended_thinking_budget" \in DOMAIN attrs
       => Supports(ActiveCaps, "supports_extended_thinking")
  /\ "reasoning_effort" \in DOMAIN attrs
       => Supports(ActiveCaps, "supports_reasoning")
  /\ "use_thinking" \in DOMAIN attrs
       => Supports(ActiveCaps, "supports_thinking")

\* C4: after set_model(model_id), for any string, every mode flag (extended
\* thinking and its budget, reasoning effort, thinking) is absent or at the
\* default freshly derived for the new model.
C4_ModelSwitchResets ==
  call.op = "set_model" => (model_id = call.arg /\ FlagsCleared)

\* C5: a capability-gated setter called while the active model lacks the
\* matching capability returns False and changes no field of the session.
C5_UnsupportedSetterRefused ==
  [][/\ (call'.op = "set_extended_thinking"
           /\ ~Supports(ActiveCaps, "supports_extended_thinking"))
          => (call'.ret = FALSE /\ UNCHANGED session)
     /\ (call'.op = "set_thinking" /\ ~Supports(ActiveCaps, "supports_thinking"))
          => (call'.ret = FALSE /\ UNCHANGED session)
     /\ (call'.op = "set_reasoning_effort"
           /\ ~Supports(ActiveCaps, "supports_reasoning"))
          => (call'.ret = FALSE /\ UNCHANGED session)]_vars

\* C5 witness: set_reasoning_effort with a valid effort was refused on a
\* model without supports_reasoning.
C5_Witness ==
  /\ call.op = "set_reasoning_effort"
  /\ call.arg = "high"
  /\ call.ret = FALSE
  /\ ~Supports(ActiveCaps, "supports_reasoning")
  /\ api_provider = "openai"

\* The cap set_extended_thinking clamps to.
BudgetCap == Get(ActiveCaps, "max_tokens_extended", 64000)

\* C6: when set_extended_thinking(enabled, budget) succeeds with a budget, the
\* stored budget is the budget clamped to [0, cap]: 0 <= stored <= cap.
C6_BudgetClamped ==
  (call.op = "set_extended_thinking" /\ call.ret = TRUE /\ call.arg[2] # NoBudget)
    => /\ 0 <= attrs.extended_thinking_budget
       /\ attrs.extended_thinking_budget <= BudgetCap

\* C7: set_reasoning_effort(effort) returns True and stores effort exactly
\* when the model supports reasoning and effort is low, medium or high;
\* otherwise it returns False and the stored effort stays as it was.
C7_ReasoningEffortValidated ==
  [][call'.op = "set_reasoning_effort"
       => IF call'.arg \in {"low", "medium", "high"}
               /\ Supports(ActiveCaps, "supports_reasoning")
          THEN /\ call'.ret = TRUE
               /\ "reasoning_effort" \in DOMAIN attrs'
               /\ attrs'.reasoning_effort = call'.arg
          ELSE /\ call'.ret = FALSE
               /\ UNCHANGED attrs]_vars

\* C7 witness: "ultra" was refused on a reasoning model whose stored effort
\* a caller had set to high.
C7_Witness ==
  /\ call.op = "set_reasoning_effort"
  /\ call.arg = "ultra"
  /\ call.ret = FALSE
  /\ Supports(ActiveCaps, "supports_reasoning")
  /\ attrs.reasoning_effort = "high"

(***************************************************************************)
(* Properties of send_request (checked under SpecSend)                     *)
(***************************************************************************)
\* A send_request has returned (or raised) and nothing was called since.
SendDone == call.op = "send_request" /\ pc = "idle"

RECURSIVE NonDecreasing(_)
NonDecreasing(seq) ==
  \/ Len(seq) <= 1
  \/ (seq[1] <= seq[2] /\ NonDecreasing(Tail(seq)))

\* C8: send_request without a credential (api_key None or empty) returns
\* exactly "Error: API key not provided", whatever the model and the provider
\* are, makes no network call, reports no progress and leaves the Gemini
\* client as it was.
C8_NoKeyRefusedFirst ==
  [][(pc = "idle" /\ call'.op = "send_request" /\ Falsy(api_key))
       => /\ pc' = "idle"
          /\ call'.ret = [via |-> "error", value |-> "Error: API key not provided"]
          /\ net_calls' = 0
          /\ progress' = <<>>
          /\ UNCHANGED session]_vars

\* C8 witness: the key error was returned to a caller with a callback although
\* the model id was empty too and the provider has no builder, in a session
\* that holds a Gemini client.
C8_Witness ==
  /\ SendDone
  /\ call.arg.present
  /\ api_key = ""
  /\ Falsy(model_id)
  /\ api_provider = "mistral"
  /\ gemini_client # None
  /\ call.ret.value = "Error: API key not provided"

\* C9: when send_request fails a precondition (no credential, no model, or a
\* provider other than anthropic, openai and gemini), the progress callback
\* is not invoked at all and no network call is made.
C9_PreconditionFailureSilent ==
  (SendDone /\ (\/ Falsy(api_key)
                \/ Falsy(model_id)
                \/ api_provider \notin {"anthropic", "openai", "gemini"}))
    => (progress = <<>> /\ net_calls = 0)

\* C10: within one send_request the values given to the progress callback
\* never decrease and start with 10: a call with a callback that passed the
\* key and model checks has reported 10 first; a call that returned the
\* extracted text to a caller with a callback reported 100 last.
C10_ProgressMonotone ==
  call.op = "send_request"
    => /\ NonDecreasing(progress)
       /\ progress # <<>> => progress[1] = 10
       /\ (call.arg.present /\ ~Falsy(api_key) /\ ~Falsy(model_id))
            => progress # <<>>
       /\ (SendDone /\ call.ret.via = "text" /\ call.arg.present)
            => progress[Len(progress)] = 100

\* C10 witness: a Gemini send returned its text after 10, 20, 40, 90, 100.
C10_Witness ==
  /\ SendDone
  /\ call.ret.via = "text"
  /\ api_provider = "gemini"
  /\ progress = <<10, 20, 40, 90, 100>>

\* The callback was given v during the call made last.
Reported(v) == \E i \in 1..Len(progress) : progress[i] = v

\* C11: on every provider, a send_request that reported 100 to a callback
\* which took it without raising returns the extracted text and not an
\* error string: nothing can fail once 100 was reported.
C11_HundredThenText ==
  (SendDone /\ Reported(100) /\ ~Raises(call.arg, 100))
    => call.ret.via = "text"

\* C12: send_request never lets an exception reach its caller, whichever
\* milestone a raising callback is given (the first one included): the call
\* ends by returning a string.
C12_NeverPropagates ==
  SendDone => call.ret.via \in {"text", "error"}

(***************************************************************************)
(* Response parsing (checked under SpecSend)                               *)
(***************************************************************************)
\* The call made last was answered with HTTP 200 by the Anthropic endpoint
\* and its callback took 90 without raising.
AnthropicAnswered ==
  /\ SendDone
  /\ api_provider = "anthropic"
  /\ net_calls = 1
  /\ ~response.exc
  /\ response.status = 200
  /\ ~Raises(call.arg, 90)

IsTextBlock(block) == "type" \in DOMAIN block /\ block.type = "text"

\* The text fields of a sequence of blocks, joined from the last one back.
RECURSIVE JoinTexts(_)
JoinTexts(blocks) ==
  IF blocks = <<>> THEN ""
  ELSE JoinTexts(SubSeq(blocks, 1, Len(blocks) - 1))
         \o Get(blocks[Len(blocks)], "text", "")

\* The text a content array is to yield: its text blocks, joined in order.
ExpectedText(json) ==
  IF "content" \in DOMAIN json
  THEN JoinTexts(SelectSeq(json.content, IsTextBlock)) ELSE ""

\* C13: on HTTP 200 with a non-empty content array the Anthropic builder
\* returns the text fields of exactly the blocks of type "text", joined in
\* array order; [text A, image, text B] yields "AB".
C13_TextBlocksConcatenated ==
  (AnthropicAnswered /\ "content" \in DOMAIN response.json
     /\ response.json.content # <<>> /\ ~Raises(call.arg, 100))
    => /\ call.ret = [via |-> "text", value |-> ExpectedText(response.json)]
       /\ (response.json.content = << [type |-> "text", text |-> "A"],
                                      [type |-> "image"],
                                      [type |-> "text", text |-> "B"] >>)
            => call.ret.value = "AB"

\* C13 witness: a block of another type that carries a text field came
\* first and was skipped; the two text blocks came out in array order.
C13_Witness ==
  /\ AnthropicAnswered
  /\ Len(response.json.content) = 3
  /\ response.json.content[1].type = "thinking"
  /\ call.ret = [via |-> "text", value |-> "BA"]

\* C14: on HTTP 200, whenever the text blocks of the Anthropic response join
\* to the empty string (content empty or absent, or without a text block),
\* send_request returns "Error: Empty response from API", does not report 100
\* and leaves last_usage as it was.
C14_EmptyConcatenationIsError ==
  [][(pc = "anthropic_post" /\ pc' = "idle" /\ ~response'.exc
        /\ response'.status = 200 /\ ~Raises(on_progress, 90)
        /\ ExpectedText(response'.json) = "")
       => /\ call'.ret = [via |-> "error",
                          value |-> "Error: Empty response from API"]
          /\ progress' = Emit(progress, on_progress, 90)
          /\ UNCHANGED last_usage]_vars

(***************************************************************************)
(* Request bodies (checked under SpecBody)                                 *)
(***************************************************************************)
\* _openai_request has built its request and is about to post it.
OpenAIBuilt == pc = "openai_post"

\* Every parameter but max_tokens is in the body with its value.
OthersPassThrough(body) ==
  \A k \in DOMAIN parameters \ {"max_tokens"} :
    k \in DOMAIN body /\ body[k] = parameters[k]

\* C15 as stated: with parameters holding max_tokens = v, the OpenAI body of
\* a reasoning model holds max_completion_tokens = v and no max_tokens key,
\* the body of any other model holds max_tokens = v, and every other
\* parameter passes through unchanged in both cases.
C15_Original ==
  (OpenAIBuilt /\ "max_tokens" \in DOMAIN parameters)
    => LET body == request.json IN
       /\ IF Supports(ActiveCaps, "supports_reasoning")
          THEN /\ Get(body, "max_completion_tokens", -1) = parameters.max_tokens
               /\ "max_tokens" \notin DOMAIN body
          ELSE Get(body, "max_tokens", -1) = parameters.max_tokens
       /\ OthersPassThrough(body)

\* C15 as amended: the same, except that a max_completion_tokens entry the
\* caller put into parameters is what a reasoning model's body carries under
\* that key; max_tokens = v is renamed to it only when there is none.
C15_BodyRewrite ==
  (OpenAIBuilt /\ "max_tokens" \in DOMAIN parameters)
    => LET body == request.json IN
       /\ IF Supports(ActiveCaps, "supports_reasoning")
          THEN /\ "max_completion_tokens" \notin DOMAIN parameters
                    => Get(body, "max_completion_tokens", -1) = parameters.max_tokens
               /\ "max_tokens" \notin DOMAIN body
          ELSE Get(body, "max_tokens", -1) = parameters.max_tokens
       /\ OthersPassThrough(body)

\* C15 witness: for the reasoning model o1, max_tokens = 500 went out as
\* max_completion_tokens = 500 beside top_p and the temperature.
C15_Witness ==
  /\ OpenAIBuilt
  /\ model_id = "o1"
  /\ Get(parameters, "max_tokens", -1) = 500
  /\ "top_p" \in DOMAIN parameters
  /\ DOMAIN request.json = {"model", "messages", "max_completion_tokens",
                            "reasoning_effort", "temperature", "top_p"}
  /\ request.json.max_completion_tokens = 500

\* C16: every OpenAI request body holds exactly one of the keys max_tokens
\* and max_completion_tokens, whatever set_provider, set_model and
\* set_parameter calls came before the send.
C16_ExactlyOneTokenKey ==
  OpenAIBuilt
    => Cardinality(DOMAIN request.json \cap {"max_tokens", "max_completion_tokens"}) = 1

(***************************************************************************)
(* Derived defaults and the capability lookup                              *)
(***************************************************************************)
\* C17: right after a successful set_provider and after set_model the
\* token-limit parameter of the active provider holds the capability's value
\* or, when the capability or the whole mapping is absent, the fallback:
\* max_tokens_default or 8192 under anthropic, max_tokens_default or 16000
\* (reasoning) / 16384 under openai, output_token_limit or 8192 under gemini.
C17_TokenDefaultDerived ==
  ((call.op = "set_provider" /\ call.ret = TRUE) \/ call.op = "set_model")
    => LET caps == ActiveCaps IN
       /\ api_provider = "anthropic"
            => Get(parameters, "max_tokens", -1) = Get(caps, "max_tokens_default", 8192)
       /\ api_provider = "openai"
            => Get(parameters, "max_tokens", -1)
                 = Get(caps, "max_tokens_default",
                       IF Supports(caps, "supports_reasoning") THEN 16000 ELSE 16384)
       /\ api_provider = "gemini"
            => Get(parameters, "max_output_tokens", -1)
                 = Get(caps, "output_token_limit", 8192)

\* The ids of the active provider's catalogue; none for an unknown provider.
CatalogueIds ==
  LET models == Get(ApiConfig, "models", <<>>)
  IN {models[i].id : i \in 1..Len(models)}

\* C18: the capability lookup for the active (provider, model_id) is defined
\* in every session, returns the empty mapping when the provider or the
\* model id is unknown and the catalogue entry's capabilities otherwise,
\* returns the same mapping when it is called again, and changes no field
\* of the session.
C18_LookupPure ==
  [][call'.op = "_get_model_capabilities"
       => /\ UNCHANGED session
          /\ (api_provider \notin DOMAIN ConfigApi \/ model_id \notin CatalogueIds)
               => call'.ret = EmptyDict
          /\ model_id \in CatalogueIds
               => \E i \in 1..Len(ApiConfig.models) :
                    /\ ApiConfig.models[i].id = model_id
                    /\ call'.ret = Get(ApiConfig.models[i], "capabilities", EmptyDict)
          /\ call.op = "_get_model_capabilities" => call'.ret = call.ret]_vars

\* C18 witness: the lookup under a provider the configuration does not know
\* returned the empty mapping.
C18_Witness ==
  /\ call.op = "_get_model_capabilities"
  /\ api_provider \notin DOMAIN ConfigApi
  /\ model_id = "gpt-4o"
  /\ call.ret = EmptyDict

(***************************************************************************)
(* Usage statistics (checked under SpecSend)                               *)
(***************************************************************************)
\* C19: last_usage is empty until a send succeeded, and a send_request that
\* returns an error string leaves last_usage as it was before the call, on
\* every provider and also when a Gemini call fails after the SDK returned
\* a response object; stated for the callbacks that never raise.
C19_UsageOnlyOnSuccess ==
  [][on_progress'.raises_at = {}
       => /\ (call'.op = "send_request" /\ pc' = "idle"
                 /\ call'.ret.via = "error")
               => UNCHANGED last_usage
          /\ last_usage' # last_usage
               => (call'.op = "send_request" /\ pc' = "idle"
                     /\ call'.ret.via = "text")]_vars

(***************************************************************************)
(* The credential (checked under SpecKey)                                  *)
(***************************************************************************)
\* A request is built and about to go to the active provider.
Dispatching == pc \in {"anthropic_post", "openai_post", "gemini_generate"}

\* The request carries the key k.
Carries(k) ==
  IF api_provider = "anthropic" THEN request.headers.x_api_key = k
  ELSE IF api_provider = "openai" THEN request.headers.authorization = "Bearer " \o k
  ELSE request.client_key = k

\* C20: every request dispatched to provider p carries a key that was given
\* to set_api_key while p was the active provider; after set_provider the
\* previous provider's key does not go to the new provider's endpoint.
C20_KeyBelongsToProvider ==
  Dispatching
    => \E pair \in supplied : pair[1] = api_provider /\ Carries(pair[2])

(***************************************************************************)
(* The Gemini client (checked under SpecSend)                              *)
(***************************************************************************)
\* The call made last tried to initialise the Gemini client and met this
\* outcome of the SDK, and no generation call followed.
SdkMet(outcomes) ==
  /\ SendDone
  /\ api_provider = "gemini"
  /\ "sdk" \in DOMAIN response
  /\ response.sdk \in outcomes

InstallInstructions ==
  {"Error: google-genai package is not installed. Please install it with 'pip install google-genai'",
   "Error: Could not import google-genai. Please install it with 'pip install google-genai'"}

\* C21: a Gemini send that finds the SDK not installed or not importable
\* returns an install-instruction error string, issues no generation call,
\* reports nothing beyond the initial 10 and leaves the client handle
\* uninitialised, so that the next send tries to initialise it again.
C21_SdkUnavailable ==
  SdkMet({"not_installed", "import_error"})
    => /\ call.ret.via = "error"
       /\ call.ret.value \in InstallInstructions
       /\ net_calls = 0
       /\ progress = Emit(<<>>, call.arg, 10)
       /\ gemini_client = None
       /\ ~Falsy(api_key)

\* C21 witness: the package was not installed; the caller's callback saw 10
\* and nothing else.
C21_Witness ==
  /\ SdkMet({"not_installed"})
  /\ call.ret.via = "error"
  /\ progress = <<10>>
  /\ gemini_client = None

(***************************************************************************)
(* The active provider (checked under SpecLookup)                          *)
(***************************************************************************)
\* C25: in every state, the state right after construction included, the
\* active provider is a key of config["api"] and api_config is that
\* provider's entry.
C25_ProviderConfigured ==
  /\ api_provider \in DOMAIN ConfigApi
  /\ api_config = api_provider

\* The token-limit keys configure_for_model derives for other providers
\* than the given one.
ForeignTokenLimits(provider) ==
  IF provider = "gemini" THEN {"max_tokens"} ELSE {"max_output_tokens"}

\* C26: after a successful set_provider(p), parameters holds no token-limit
\* default that was derived for a different provider.
C26_DerivedDefaultsReplaced ==
  (call.op = "set_provider" /\ call.ret = TRUE)
    => ForeignTokenLimits(api_provider) \cap DOMAIN parameters = {}

(***************************************************************************)
(* The Gemini handle and the key (checked under SpecKey)                   *)
(***************************************************************************)
\* C27: whenever generate_content is about to be called, the client handle
\* it is called on was configured with the session's current api_key.
C27_HandleBoundToCurrentKey ==
  pc = "gemini_generate" => request.client_key = api_key

\* A generation under a key that was only ever supplied while another
\* provider was active, after an earlier key had been supplied under gemini.
C27_Witness ==
  /\ pc = "gemini_generate"
  /\ request.client_key = "sk-2"
  /\ api_key = "sk-2"
  /\ <<"gemini", "sk-1">> \in supplied
  /\ <<"gemini", "sk-2">> \notin supplied

(***************************************************************************)
(* The reasoning effort in the OpenAI body (checked under Spec)            *)
(***************************************************************************)
Efforts == {"low", "medium", "high"}

\* The body built for a model that supports reasoning.
ReasoningBodyBuilt ==
  /\ OpenAIBuilt
  /\ Supports(ActiveCaps, "supports_reasoning")

\* A step other than an accepted set_reasoning_effort leaves the effort as
\* it was or at "medium".
EffortOnlySetByCaller ==
  ("reasoning_effort" \in DOMAIN attrs'
     /\ ~(call'.op = "set_reasoning_effort" /\ call'.ret = TRUE))
    => \/ attrs'.reasoning_effort = "medium"
       \/ /\ "reasoning_effort" \in DOMAIN attrs
          /\ attrs'.reasoning_effort = attrs.reasoning_effort

C29_BodyFields ==
  /\ (pc \in {"anthropic_post", "openai_post"})
       => /\ request.json.model = model_id
          /\ request.json.messages = << [role |-> "user", content |-> Prompt] >>
  /\ (pc = "anthropic_post" /\ "thinking" \in DOMAIN request.json)
       => /\ Get(attrs, "use_extended_thinking", FALSE)
          /\ Supports(ActiveCaps, "supports_extended_thinking")
          /\ "extended_thinking_budget" \in DOMAIN attrs
          /\ request.json.thinking.budget_tokens = attrs.extended_thinking_budget
          /\ request.json.thinking.budget_tokens
               <= Get(ActiveCaps, "max_tokens_extended", 64000)

(***************************************************************************)
(* What the calls leave alone (checked under SpecFrame)                    *)
(***************************************************************************)
\* Every entry of parameters but the named one is as it was.
OthersKept(name) ==
  /\ DOMAIN parameters' = DOMAIN parameters \cup {name}
  /\ \A k \in DOMAIN parameters \ {name} : parameters'[k] = parameters[k]

\* C30: a step of send_request leaves provider, api_config, model_id,
\* api_key, parameters and the mode flags as they were; set_parameter(name,
\* value) changes parameters[name] and nothing else of the session;
\* set_api_key changes api_key and, under gemini only, the client handle.
C30_Frame ==
  [][/\ call'.op = "send_request"
          => UNCHANGED <<config, api_provider, api_config, model_id, api_key,
                         parameters, attrs>>
     /\ call'.op = "set_parameter"
          => /\ parameters'[call'.arg[1]] = call'.arg[2]
             /\ OthersKept(call'.arg[1])
             /\ UNCHANGED <<config, api_provider, api_config, model_id,
                            api_key, attrs, last_usage, gemini_client>>
     /\ call'.op = "set_api_key"
          => /\ api_key' = call'.arg
             /\ UNCHANGED <<config, api_provider, api_config, model_id,
                            parameters, attrs, last_usage>>
             /\ api_provider # "gemini" => UNCHANGED gemini_client
             /\ api_provider = "gemini" => gemini_client' = None]_vars

\* A key was set under another provider while a Gemini handle was cached,
\* after a send that stored usage.
C30_Witness ==
  /\ call.op = "set_api_key"
  /\ api_provider # "gemini"
  /\ gemini_client # None
  /\ last_usage # EmptyDict
  /\ "max_tokens" \in DOMAIN parameters
  /\ parameters.max_tokens = 500

(***************************************************************************)
(* The credential store (checked under SpecStore)                          *)
(***************************************************************************)
KnownProviders == {"anthropic", "openai", "gemini"}

KeyVariable ==
  [anthropic |-> "ANTHROPIC_API_KEY", openai |-> "OPENAI_API_KEY",
   gemini |-> "GEMINI_API_KEY"]

\* The key the file holds for a provider, "" when it holds none.
StoredKey(file, provider) ==
  IF file.exists /\ KeyVariable[provider] \in DotenvNames(file.lines)
  THEN DotenvValue(file.lines, KeyVariable[provider])
  ELSE ""

\* C24: after save_key(p, k) for a known provider the load operation returns
\* k for p, the stored keys of the other providers are as before, and saving
\* (p, k) again leaves the store as it is; save_key for any other provider
\* returns False and changes nothing.
C24_SaveRoundTrips ==
  [][call'.op = "save_key"
       => LET p == call'.arg[1]
              k == call'.arg[2]
              again == SaveKeyOutcome(env_file', environ', p, k)
          IN IF p \in KnownProviders
             THEN /\ LoadKeysOutcome(env_file', environ').keys[p] = k
                  /\ \A q \in KnownProviders \ {p} :
                       StoredKey(env_file', q) = StoredKey(env_file, q)
                  /\ again.file = env_file'
                  /\ again.environ = environ'
             ELSE /\ call'.ret = [via |-> "return", value |-> "False"]
                  /\ UNCHANGED <<env_file, environ>>]_vars

(***************************************************************************)
(* One request at a time (checked under SpecGui)                           *)
(***************************************************************************)
\* The workers inside send_request.
InFlight == running + (IF pc = "idle" THEN 0 ELSE 1)

============================================================================
